---- MODULE Spec2Model ----
(***************************************************************************)
(* A model of the ingestion pipeline of src/ingestion.py and the store of  *)
(* src/database.py: the start/stop registry, the per-symbol connector      *)
(* threads, the bounded tick queue, and the flush thread with its          *)
(* aggregation into bars.  Python threads interleave between statements    *)
(* that touch shared state; each action below is one such statement (with  *)
(* the thread-local statements around it).                                 *)
(***************************************************************************)
EXTENDS Integers, Sequences, FiniteSets, TLC

\* ------------------------------------------------------------------ bounds
\* Capacity of _tick_queue (10_000 in the source), scaled down.
maxsize == 3
\* batch_size of _ensure_flush_thread (200 in the source), scaled down.
batch_size == 3
\* Calls of start_stream/stop_stream made in one behaviour.
MaxCalls == 4
\* Connector threads created in one behaviour.
MaxWorkers == 2
\* Flush threads created in one behaviour.
MaxFlushers == 2
\* Feed messages delivered in one behaviour.
MaxMsgs == 5
\* The count of backoff waits of one connector saturates here.
MaxWaits == 6
\* Steps of one behaviour in which time passes.
MaxClock == 3
\* Length of the series handed to a function of analytics.py.
MaxLen == 3
\* Calls made directly on the store in one behaviour.
MaxStoreCalls == 2

\* ------------------------------------------------------- program constants
BackoffStart == 1
BackoffCap == 30
\* flush_interval=1.0 of _ensure_flush_thread, in ms.
flush_interval == 1000
\* `time.time() - last_prune > 300`, in ms.
PruneEvery == 300000
\* retention_hours=6 of _ensure_flush_thread.
retention_hours == 6

Symbols == {"x", "y"}
Callers == {1, 2}
Controller == 1
\* The connector thread whose scheduling the fair specification states.
FirstWorker == 1
Workers == 1 .. MaxWorkers
Flushers == 1 .. MaxFlushers
\* A dictionary key that is absent, a global that is None.
None == 0

Min(a, b) == IF a <= b THEN a ELSE b
Max(a, b) == IF a >= b THEN a ELSE b

VARIABLES
    \* ---- module globals of ingestion.py
    stream_threads,  \* _stream_threads: symbol -> connector thread (None: no key)
    stop_flags,      \* _stop_flags: symbol -> the Event of that thread (None: no key)
    flush_thread,    \* _flush_thread: the last flush thread assigned, or None
    tick_queue,      \* _tick_queue: the queued ticks, oldest first
    \* ---- threads calling start_stream / stop_stream
    cpc,             \* the statement each caller is at
    csym,            \* its symbol argument
    cthr,            \* its local `thread` (and `stop_event`)
    ncalls,          \* calls made so far
    covl,            \* whether the caller's current call overlapped another call
    lastDone,        \* per symbol: the last call that returned ("start"/"stop"),
                     \* "racy" when that call overlapped another one
    \* ---- connector threads (_start_socket)
    nworkers,        \* thread objects created so far
    wsym,            \* the symbol of each
    wpc,             \* where each is in _start_socket
    backoff,         \* its local backoff
    stopEvt,         \* its stop_event
    nwait,           \* how many times it has slept
    \* ---- the on_message callback running in a connector thread
    mpc,             \* where the callback is
    mtick,           \* its local tick
    nmsg,            \* feed messages delivered so far
    outcome,         \* how the connector's last offer ended
    offered,         \* every tick built by _on_message, in receipt order
    enq,             \* every tick put on the queue, in enqueue order
    evicted,         \* ticks removed by the drop-oldest branch
    \* ---- flush threads (_flush_loop)
    nflushers,       \* thread objects created so far
    fpc,             \* where each is in _flush_loop
    batch,           \* its local batch
    aggtf,           \* the timeframe _aggregate_and_store_bars is at
    taken,           \* every tick a flush thread got from the queue, in order
    \* ---- the store (database.py)
    ticks,           \* table ticks, in insertion order
    bars,            \* timeframe -> the rows of its bar table
    dbcalls,         \* the calls made directly on database.py, in order
    \* ---- time
    now,             \* the wall clock (time.time(), sqlite's 'now'), ms since the epoch
    nclock,          \* steps in which time has passed
    start,           \* _flush_loop's local start
    last_prune,      \* its local last_prune
    getEnd,          \* when its pending get(timeout=flush_interval) times out
    prunes,          \* the prunes done by flush threads: by which, at what instant
    \* ---- a call of a function of analytics.py
    args,            \* the function and its arguments
    result           \* what the call returned or raised, "pending" before it ends

regVars == <<stream_threads, stop_flags, flush_thread, cpc, csym, cthr, ncalls,
             covl, lastDone>>
workerVars == <<nworkers, wsym, wpc, backoff, stopEvt, nwait>>
msgVars == <<mpc, mtick, nmsg, outcome, offered, enq, evicted>>
flushVars == <<nflushers, fpc, batch, aggtf, taken>>
storeVars == <<ticks, bars>>
callVars == <<dbcalls, args, result>>
timeVars == <<now, nclock, start, last_prune, getEnd, prunes, callVars>>
vars == <<regVars, workerVars, msgVars, flushVars, storeVars, timeVars, tick_queue>>

Timeframes == <<"1s", "1m", "5m">>

\* ------------------------------------------------------------------- Init
\* The clock at the epoch, no flush thread has read it, no call on the store.
ClockStart ==
    /\ now = 0
    /\ nclock = 0
    /\ start = [f \in Flushers |-> 0]
    /\ last_prune = [f \in Flushers |-> 0]
    /\ getEnd = [f \in Flushers |-> 0]
    /\ prunes = <<>>
    /\ dbcalls = <<>>

\* No function of analytics.py is being called.
NoCall == args = [fn |-> "none"] /\ result = [raised |-> "pending"]

\* The module just imported: empty registries, empty queue, no thread.
Imported ==
    /\ ClockStart
    /\ stream_threads = [s \in Symbols |-> None]
    /\ stop_flags = [s \in Symbols |-> None]
    /\ flush_thread = None
    /\ tick_queue = <<>>
    /\ cpc = [c \in Callers |-> "idle"]
    /\ csym = [c \in Callers |-> "x"]
    /\ cthr = [c \in Callers |-> None]
    /\ ncalls = 0
    /\ covl = [c \in Callers |-> FALSE]
    /\ lastDone = [s \in Symbols |-> "none"]
    /\ nworkers = 0
    /\ wsym = [w \in Workers |-> "x"]
    /\ wpc = [w \in Workers |-> "unborn"]
    /\ backoff = [w \in Workers |-> BackoffStart]
    /\ stopEvt = [w \in Workers |-> FALSE]
    /\ nwait = [w \in Workers |-> 0]
    /\ mpc = [w \in Workers |-> "idle"]
    /\ mtick = [w \in Workers |-> None]
    /\ nmsg = 0
    /\ outcome = [w \in Workers |-> "none"]
    /\ offered = <<>>
    /\ enq = <<>>
    /\ evicted = {}
    /\ nflushers = 0
    /\ fpc = [f \in Flushers |-> "unborn"]
    /\ batch = [f \in Flushers |-> <<>>]
    /\ aggtf = [f \in Flushers |-> 1]
    /\ taken = <<>>
    /\ ticks = <<>>
    /\ bars = [tf \in {"1s", "1m", "5m"} |-> {}]

Init == Imported /\ NoCall

\* ------------------------------------------------- start_stream/stop_stream
\* Thread.is_alive(): started and not yet finished.
FlushAlive(f) == fpc[f] \notin {"unborn", "new", "dead"}

\* A call returns (normally or by an exception): the caller is idle again.
Return(c, op) ==
    /\ cpc' = [cpc EXCEPT ![c] = "idle"]
    /\ lastDone' = [lastDone EXCEPT ![csym[c]] = IF covl[c] THEN "racy" ELSE op]

\* A thread enters start_stream(s) or stop_stream(s).
Call(c, s, first) ==
    /\ cpc[c] = "idle"
    /\ ncalls < MaxCalls
    /\ ncalls' = ncalls + 1
    /\ cpc' = [cpc EXCEPT ![c] = first]
    /\ csym' = [csym EXCEPT ![c] = s]
    /\ covl' = [d \in Callers |->
                  IF d = c THEN \E e \in Callers \ {c} : cpc[e] # "idle"
                  ELSE covl[d] \/ cpc[d] # "idle"]
    /\ UNCHANGED <<stream_threads, stop_flags, flush_thread, cthr, lastDone>>
    /\ UNCHANGED <<workerVars, msgVars, flushVars, storeVars, timeVars, tick_queue>>

CallStart(c, s) == Call(c, s, "start_check")
CallStop(c, s) == Call(c, s, "stop_check")

\* start_stream: `if symbol in _stream_threads: return`, then create_tables()
\* (the tables exist already: no change of the modelled store).
StartCheck(c) ==
    /\ cpc[c] = "start_check"
    /\ IF stream_threads[csym[c]] # None
         THEN Return(c, "start")
         ELSE cpc' = [cpc EXCEPT ![c] = "ensure_check"] /\ UNCHANGED lastDone
    /\ UNCHANGED <<stream_threads, stop_flags, flush_thread, csym, cthr, ncalls, covl>>
    /\ UNCHANGED <<workerVars, msgVars, flushVars, storeVars, timeVars, tick_queue>>

\* _ensure_flush_thread: `if _flush_thread and _flush_thread.is_alive(): return`
EnsureCheck(c) ==
    /\ cpc[c] = "ensure_check"
    /\ cpc' = [cpc EXCEPT ![c] =
                 IF flush_thread # None /\ FlushAlive(flush_thread)
                   THEN "reg_thread" ELSE "ensure_create"]
    /\ UNCHANGED <<stream_threads, stop_flags, flush_thread, csym, cthr, ncalls,
                   covl, lastDone>>
    /\ UNCHANGED <<workerVars, msgVars, flushVars, storeVars, timeVars, tick_queue>>

\* `_flush_thread = threading.Thread(target=_flush_loop, daemon=True)`
EnsureCreate(c) ==
    /\ cpc[c] = "ensure_create"
    /\ nflushers < MaxFlushers
    /\ nflushers' = nflushers + 1
    /\ fpc' = [fpc EXCEPT ![nflushers + 1] = "new"]
    /\ flush_thread' = nflushers + 1
    /\ cpc' = [cpc EXCEPT ![c] = "ensure_start"]
    /\ UNCHANGED <<stream_threads, stop_flags, csym, cthr, ncalls, covl, lastDone>>
    /\ UNCHANGED <<batch, aggtf, taken>>
    /\ UNCHANGED <<workerVars, msgVars, storeVars, timeVars, tick_queue>>

\* `_flush_thread.start()`: the global is read again; starting a thread that
\* was started already raises RuntimeError out of start_stream.
EnsureStart(c) ==
    /\ cpc[c] = "ensure_start"
    /\ IF fpc[flush_thread] = "new"
         THEN /\ fpc' = [fpc EXCEPT ![flush_thread] = "init"]
              /\ cpc' = [cpc EXCEPT ![c] = "reg_thread"]
              /\ UNCHANGED lastDone
         ELSE /\ Return(c, "start")
              /\ UNCHANGED fpc
    /\ UNCHANGED <<stream_threads, stop_flags, flush_thread, csym, cthr, ncalls, covl>>
    /\ UNCHANGED <<nflushers, batch, aggtf, taken>>
    /\ UNCHANGED <<workerVars, msgVars, storeVars, timeVars, tick_queue>>

\* `stop_event = Event(); thread = Thread(...); _stream_threads[symbol] = thread`
RegThread(c) ==
    /\ cpc[c] = "reg_thread"
    /\ nworkers < MaxWorkers
    /\ nworkers' = nworkers + 1
    /\ wsym' = [wsym EXCEPT ![nworkers + 1] = csym[c]]
    /\ wpc' = [wpc EXCEPT ![nworkers + 1] = "new"]
    /\ cthr' = [cthr EXCEPT ![c] = nworkers + 1]
    /\ stream_threads' = [stream_threads EXCEPT ![csym[c]] = nworkers + 1]
    /\ cpc' = [cpc EXCEPT ![c] = "reg_flag"]
    /\ UNCHANGED <<stop_flags, flush_thread, csym, ncalls, covl, lastDone>>
    /\ UNCHANGED <<backoff, stopEvt, nwait>>
    /\ UNCHANGED <<msgVars, flushVars, storeVars, timeVars, tick_queue>>

\* `_stop_flags[symbol] = stop_event`
RegFlag(c) ==
    /\ cpc[c] = "reg_flag"
    /\ stop_flags' = [stop_flags EXCEPT ![csym[c]] = cthr[c]]
    /\ cpc' = [cpc EXCEPT ![c] = "thread_start"]
    /\ UNCHANGED <<stream_threads, flush_thread, csym, cthr, ncalls, covl, lastDone>>
    /\ UNCHANGED <<workerVars, msgVars, flushVars, storeVars, timeVars, tick_queue>>

\* `thread.start()`: the connector enters _start_socket; start_stream returns.
ThreadStart(c) ==
    /\ cpc[c] = "thread_start"
    /\ wpc' = [wpc EXCEPT ![cthr[c]] = "loop"]
    /\ Return(c, "start")
    /\ UNCHANGED <<stream_threads, stop_flags, flush_thread, csym, cthr, ncalls, covl>>
    /\ UNCHANGED <<nworkers, wsym, backoff, stopEvt, nwait>>
    /\ UNCHANGED <<msgVars, flushVars, storeVars, timeVars, tick_queue>>

\* stop_stream: `if symbol not in _stream_threads: return`
StopCheck(c) ==
    /\ cpc[c] = "stop_check"
    /\ IF stream_threads[csym[c]] = None
         THEN Return(c, "stop")
         ELSE cpc' = [cpc EXCEPT ![c] = "stop_set"] /\ UNCHANGED lastDone
    /\ UNCHANGED <<stream_threads, stop_flags, flush_thread, csym, cthr, ncalls, covl>>
    /\ UNCHANGED <<workerVars, msgVars, flushVars, storeVars, timeVars, tick_queue>>

\* `_stop_flags[symbol].set()`: KeyError out of stop_stream when the key is absent.
StopSet(c) ==
    /\ cpc[c] = "stop_set"
    /\ IF stop_flags[csym[c]] = None
         THEN /\ Return(c, "stop")
              /\ UNCHANGED stopEvt
         ELSE /\ stopEvt' = [stopEvt EXCEPT ![stop_flags[csym[c]]] = TRUE]
              /\ cpc' = [cpc EXCEPT ![c] = "stop_pop_thread"]
              /\ UNCHANGED lastDone
    /\ UNCHANGED <<stream_threads, stop_flags, flush_thread, csym, cthr, ncalls, covl>>
    /\ UNCHANGED <<nworkers, wsym, wpc, backoff, nwait>>
    /\ UNCHANGED <<msgVars, flushVars, storeVars, timeVars, tick_queue>>

\* `_stream_threads.pop(symbol, None)`
StopPopThread(c) ==
    /\ cpc[c] = "stop_pop_thread"
    /\ stream_threads' = [stream_threads EXCEPT ![csym[c]] = None]
    /\ cpc' = [cpc EXCEPT ![c] = "stop_pop_flag"]
    /\ UNCHANGED <<stop_flags, flush_thread, csym, cthr, ncalls, covl, lastDone>>
    /\ UNCHANGED <<workerVars, msgVars, flushVars, storeVars, timeVars, tick_queue>>

\* `_stop_flags.pop(symbol, None)`; stop_stream returns.
StopPopFlag(c) ==
    /\ cpc[c] = "stop_pop_flag"
    /\ stop_flags' = [stop_flags EXCEPT ![csym[c]] = None]
    /\ Return(c, "stop")
    /\ UNCHANGED <<stream_threads, flush_thread, csym, cthr, ncalls, covl>>
    /\ UNCHANGED <<workerVars, msgVars, flushVars, storeVars, timeVars, tick_queue>>

\* get_status()["active_symbols"]
active_symbols == {s \in Symbols : stream_threads[s] # None}

\* One statement of a thread that calls into the registry.
CallerStep(c) ==
    \/ \E s \in Symbols : CallStart(c, s)
    \/ \E s \in Symbols : CallStop(c, s)
    \/ StartCheck(c)
    \/ EnsureCheck(c)
    \/ EnsureCreate(c)
    \/ EnsureStart(c)
    \/ RegThread(c)
    \/ RegFlag(c)
    \/ ThreadStart(c)
    \/ StopCheck(c)
    \/ StopSet(c)
    \/ StopPopThread(c)
    \/ StopPopFlag(c)

\* Any number of threads calling start_stream and stop_stream.
NextRegistry == \E c \in Callers : CallerStep(c)
SpecRegistry == Init /\ [][NextRegistry]_vars

\* ------------------------------------------------------------ _start_socket
\* `while not stop_event.is_set():` leaves the loop, and the thread ends, only here.
WLoop(w) ==
    /\ wpc[w] = "loop"
    /\ wpc' = [wpc EXCEPT ![w] = IF stopEvt[w] THEN "done" ELSE "connecting"]
    /\ UNCHANGED <<nworkers, wsym, backoff, stopEvt, nwait>>
    /\ UNCHANGED <<regVars, msgVars, flushVars, storeVars, timeVars, tick_queue>>

\* `ws = WebSocketApp(...); ws.run_forever(...)`: the connection is established
\* (run_forever blocks, dispatching messages), or run_forever returns at once
\* (the library reports the failure to on_error), or an exception is raised.
WConnect(w) ==
    /\ wpc[w] = "connecting"
    /\ \E r \in {"run", "closed", "failed"} : wpc' = [wpc EXCEPT ![w] = r]
    /\ UNCHANGED <<nworkers, wsym, backoff, stopEvt, nwait>>
    /\ UNCHANGED <<regVars, msgVars, flushVars, storeVars, timeVars, tick_queue>>

\* The peer closes the connection or it breaks: run_forever returns. Nothing
\* in the program closes it: stop_event is read by the loop condition alone.
WClose(w) ==
    /\ wpc[w] = "run"
    /\ mpc[w] = "idle"
    /\ wpc' = [wpc EXCEPT ![w] = "closed"]
    /\ UNCHANGED <<nworkers, wsym, backoff, stopEvt, nwait>>
    /\ UNCHANGED <<regVars, msgVars, flushVars, storeVars, timeVars, tick_queue>>

\* WBackoff with the exception of a failed attempt left uncaught: the thread ends.
WBackoffGiveUp(w) ==
    /\ wpc[w] \in {"closed", "failed"}
    /\ IF wpc[w] = "failed"
         THEN /\ wpc' = [wpc EXCEPT ![w] = "done"]
              /\ UNCHANGED <<backoff, nwait>>
         ELSE /\ backoff' = [backoff EXCEPT ![w] = Min(backoff[w] * 2, BackoffCap)]
              /\ nwait' = [nwait EXCEPT ![w] = Min(nwait[w] + 1, MaxWaits)]
              /\ wpc' = [wpc EXCEPT ![w] = "sleep"]
    /\ UNCHANGED <<nworkers, wsym, stopEvt>>
    /\ UNCHANGED <<regVars, msgVars, flushVars, storeVars, timeVars, tick_queue>>

\* `backoff = min(backoff * 2, 30)` after run_forever returned and in
\* `except Exception`, then `time.sleep(backoff)` begins.
WBackoff(w) ==
    /\ wpc[w] \in {"closed", "failed"}
    /\ backoff' = [backoff EXCEPT ![w] = Min(backoff[w] * 2, BackoffCap)]
    /\ nwait' = [nwait EXCEPT ![w] = Min(nwait[w] + 1, MaxWaits)]
    /\ wpc' = [wpc EXCEPT ![w] = "sleep"]
    /\ UNCHANGED <<nworkers, wsym, stopEvt>>
    /\ UNCHANGED <<regVars, msgVars, flushVars, storeVars, timeVars, tick_queue>>

\* `time.sleep(backoff)` returns after backoff seconds, stop or no stop.
WSleep(w) ==
    /\ wpc[w] = "sleep"
    /\ wpc' = [wpc EXCEPT ![w] = "loop"]
    /\ UNCHANGED <<nworkers, wsym, backoff, stopEvt, nwait>>
    /\ UNCHANGED <<regVars, msgVars, flushVars, storeVars, timeVars, tick_queue>>

WorkerStep(w) ==
    \/ WLoop(w)
    \/ WConnect(w)
    \/ WClose(w)
    \/ WBackoff(w)
    \/ WSleep(w)

\* One thread calling start_stream and stop_stream, and the connectors it starts.
NextConnector ==
    \/ CallerStep(Controller)
    \/ \E w \in Workers : WorkerStep(w)
SpecConnector == Init /\ [][NextConnector]_vars

\* One subscription watched on its own: the controlling thread and the first
\* connector thread it starts.
NextSubscription ==
    \/ CallerStep(Controller)
    \/ WorkerStep(FirstWorker)

\* The scheduler runs a connector thread that can take a step of its own: a
\* sleep ends, a connection attempt ends one way or another. When an open
\* connection closes is up to the peer, and when calls are made to the caller.
FairConnector ==
    /\ Init /\ [][NextSubscription]_vars
    /\ WF_vars(WLoop(FirstWorker))
    /\ WF_vars(WConnect(FirstWorker))
    /\ WF_vars(WBackoff(FirstWorker))
    /\ WF_vars(WSleep(FirstWorker))

\* ------------------------------------------------------------- _on_message
\* What a trade message carries besides its symbol: T (ms since the epoch),
\* p and q. The queue does not look at them: one payload does for its claims.
BufferFeed == {[T |-> 100, p |-> 100, q |-> 1]}

\* `tick = {"time": ..., "symbol": ..., "price": ..., "qty": ...}`; id tells
\* apart two ticks with equal fields (two dict objects).
MakeTick(n, s, m) == [id |-> n, symbol |-> s, time |-> m.T, price |-> m.p, qty |-> m.q]

\* Messages that make _on_message raise before a tick is built: text that
\* is not JSON (json.loads raises), and a trade without "T" (KeyError).
JunkFeed == {[raw |-> "{"], [p |-> 100, q |-> 1]}

\* json.loads(message) returns and data["T"], data["p"], data["q"] exist.
Parses(m) == {"T", "p", "q"} \subseteq DOMAIN m

\* MsgRecv with the connection torn down by the exception of the callback.
MsgRecvCloses(w, m) ==
    /\ wpc[w] = "run"
    /\ mpc[w] = "idle"
    /\ nmsg < MaxMsgs
    /\ nmsg' = nmsg + 1
    /\ IF ~Parses(m)
         THEN /\ outcome' = [outcome EXCEPT ![w] = "unparsed"]
              /\ wpc' = [wpc EXCEPT ![w] = "closed"]
              /\ UNCHANGED <<offered, tick_queue, enq, mpc, mtick>>
         ELSE LET tick == MakeTick(nmsg + 1, wsym[w], m) IN
              /\ offered' = Append(offered, tick)
              /\ tick_queue' = Append(tick_queue, tick)
              /\ enq' = Append(enq, tick)
              /\ outcome' = [outcome EXCEPT ![w] = "queued"]
              /\ UNCHANGED <<mpc, mtick, wpc>>
    /\ UNCHANGED <<evicted, nworkers, wsym, backoff, stopEvt, nwait>>
    /\ UNCHANGED <<regVars, flushVars, storeVars, timeVars>>

\* A message arrives on the open connection. When it does not parse, the
\* callback raises before put_nowait: WebSocketApp catches what a callback
\* raises and hands it to on_error (here a no-op), and goes on reading.
\* Otherwise the tick is built and `_tick_queue.put_nowait(tick)` is tried;
\* queue.Full leads to the handler.
MsgRecv(w, m) ==
    /\ wpc[w] = "run"
    /\ mpc[w] = "idle"
    /\ nmsg < MaxMsgs
    /\ nmsg' = nmsg + 1
    /\ IF ~Parses(m)
         THEN /\ outcome' = [outcome EXCEPT ![w] = "unparsed"]
              /\ UNCHANGED <<offered, tick_queue, enq, mpc, mtick>>
         ELSE LET tick == MakeTick(nmsg + 1, wsym[w], m) IN
              /\ offered' = Append(offered, tick)
              /\ IF Len(tick_queue) < maxsize
                   THEN /\ tick_queue' = Append(tick_queue, tick)
                        /\ enq' = Append(enq, tick)
                        /\ outcome' = [outcome EXCEPT ![w] = "queued"]
                        /\ UNCHANGED <<mpc, mtick>>
                   ELSE /\ mpc' = [mpc EXCEPT ![w] = "evict"]
                        /\ mtick' = [mtick EXCEPT ![w] = tick]
                        /\ outcome' = [outcome EXCEPT ![w] = "pending"]
                        /\ UNCHANGED <<tick_queue, enq>>
    /\ UNCHANGED evicted
    /\ UNCHANGED <<regVars, workerVars, flushVars, storeVars, timeVars>>

\* MsgEvict with the newest queued tick removed instead of the oldest.
MsgEvictNewest(w) ==
    /\ mpc[w] = "evict"
    /\ IF tick_queue # <<>>
         THEN /\ tick_queue' = SubSeq(tick_queue, 1, Len(tick_queue) - 1)
              /\ evicted' = evicted \cup {tick_queue[Len(tick_queue)]}
              /\ mpc' = [mpc EXCEPT ![w] = "reput"]
              /\ UNCHANGED <<mtick, outcome>>
         ELSE /\ mpc' = [mpc EXCEPT ![w] = "idle"]
              /\ mtick' = [mtick EXCEPT ![w] = None]
              /\ outcome' = [outcome EXCEPT ![w] = "dropped"]
              /\ UNCHANGED <<tick_queue, evicted>>
    /\ UNCHANGED <<nmsg, offered, enq>>
    /\ UNCHANGED <<regVars, workerVars, flushVars, storeVars, timeVars>>

\* `except queue.Full: try: _tick_queue.get_nowait()`: the oldest tick is
\* removed; on queue.Empty (`except queue.Empty: pass`) the new tick is let go.
MsgEvict(w) ==
    /\ mpc[w] = "evict"
    /\ IF tick_queue # <<>>
         THEN /\ tick_queue' = Tail(tick_queue)
              /\ evicted' = evicted \cup {Head(tick_queue)}
              /\ mpc' = [mpc EXCEPT ![w] = "reput"]
              /\ UNCHANGED <<mtick, outcome>>
         ELSE /\ mpc' = [mpc EXCEPT ![w] = "idle"]
              /\ mtick' = [mtick EXCEPT ![w] = None]
              /\ outcome' = [outcome EXCEPT ![w] = "dropped"]
              /\ UNCHANGED <<tick_queue, evicted>>
    /\ UNCHANGED <<nmsg, offered, enq>>
    /\ UNCHANGED <<regVars, workerVars, flushVars, storeVars, timeVars>>

\* `_tick_queue.put_nowait(tick)` inside the handler: queue.Full here is not
\* caught (the inner except names queue.Empty) and leaves _on_message.
MsgReput(w) ==
    /\ mpc[w] = "reput"
    /\ IF Len(tick_queue) < maxsize
         THEN /\ tick_queue' = Append(tick_queue, mtick[w])
              /\ enq' = Append(enq, mtick[w])
              /\ outcome' = [outcome EXCEPT ![w] = "queued"]
         ELSE /\ outcome' = [outcome EXCEPT ![w] = "raised"]
              /\ UNCHANGED <<tick_queue, enq>>
    /\ mpc' = [mpc EXCEPT ![w] = "idle"]
    /\ mtick' = [mtick EXCEPT ![w] = None]
    /\ UNCHANGED <<nmsg, offered, evicted>>
    /\ UNCHANGED <<regVars, workerVars, flushVars, storeVars, timeVars>>

MsgStep(w) ==
    \/ \E m \in BufferFeed : MsgRecv(w, m)
    \/ MsgEvict(w)
    \/ MsgReput(w)

\* ------------------------------------------------- _aggregate_and_store_bars
\* Width in ms of the windows of rule "1S", "1T", "5T".
TfWidth(tf) == CASE tf = "1s" -> 1000 [] tf = "1m" -> 60000 [] tf = "5m" -> 300000

\* Start of the window of width w that holds instant t (resample bins are
\* aligned to the epoch for these rules).
WindowOf(t, w) == (t \div w) * w

\* df.groupby("symbol"): the rows of one symbol, in batch order.
RowsOf(b, s) == SelectSeq(b, LAMBDA t : t.symbol = s)

\* resample sorts the rows of a group by its time index with a stable sort
\* (pandas' TimeGrouper always sorts, kind="mergesort").
InsertByTime(sorted, t) ==
    LET n == Cardinality({i \in 1 .. Len(sorted) : sorted[i].time <= t.time})
    IN SubSeq(sorted, 1, n) \o <<t>> \o SubSeq(sorted, n + 1, Len(sorted))

RECURSIVE SortByTime(_)
SortByTime(rows) ==
    IF rows = <<>> THEN <<>>
    ELSE InsertByTime(SortByTime(SubSeq(rows, 1, Len(rows) - 1)), rows[Len(rows)])

RECURSIVE SeqMax(_)
SeqMax(xs) == IF Len(xs) = 1 THEN xs[1] ELSE Max(xs[1], SeqMax(Tail(xs)))
RECURSIVE SeqMin(_)
SeqMin(xs) == IF Len(xs) = 1 THEN xs[1] ELSE Min(xs[1], SeqMin(Tail(xs)))
RECURSIVE SeqSum(_)
SeqSum(xs) == IF xs = <<>> THEN 0 ELSE xs[1] + SeqSum(Tail(xs))

\* BarOf with high taken as the first price of the bin.
BarOfHighFirst(s, ot, rows) ==
    LET prices == [i \in 1 .. Len(rows) |-> rows[i].price]
        qtys == [i \in 1 .. Len(rows) |-> rows[i].qty]
    IN [time |-> ot, symbol |-> s,
        open |-> prices[1], high |-> prices[1], low |-> SeqMin(prices),
        close |-> prices[Len(prices)], volume |-> SeqSum(qtys)]

\* .agg(open=first, high=max, low=min, close=last, volume=sum) of one bin.
BarOf(s, ot, rows) ==
    LET prices == [i \in 1 .. Len(rows) |-> rows[i].price]
        qtys == [i \in 1 .. Len(rows) |-> rows[i].qty]
    IN [time |-> ot, symbol |-> s,
        open |-> prices[1], high |-> SeqMax(prices), low |-> SeqMin(prices),
        close |-> prices[Len(prices)], volume |-> SeqSum(qtys)]

\* AggregateBars with the rows of a bin left in batch order (no sort).
AggregateBarsUnsorted(b, tf) ==
    LET w == TfWidth(tf)
        keys == {<<b[i].symbol, WindowOf(b[i].time, w)>> : i \in 1 .. Len(b)}
    IN {BarOf(k[1], k[2],
              SelectSeq(RowsOf(b, k[1]),
                        LAMBDA t : WindowOf(t.time, w) = k[2])) : k \in keys}

\* The records of one timeframe: per symbol and per window that holds a row
\* (.dropna() removes the empty windows resample puts between them).
AggregateBars(b, tf) ==
    LET w == TfWidth(tf)
        keys == {<<b[i].symbol, WindowOf(b[i].time, w)>> : i \in 1 .. Len(b)}
    IN {BarOf(k[1], k[2],
              SelectSeq(SortByTime(RowsOf(b, k[1])),
                        LAMBDA t : WindowOf(t.time, w) = k[2])) : k \in keys}

\* ---------------------------------------------------------------- database
\* The statement of insert_or_replace_bars with DO NOTHING on a conflict.
UpsertRowKeepOld(rows, b) ==
    IF \E r \in rows : r.symbol = b.symbol /\ r.time = b.time THEN rows
    ELSE rows \cup {b}

\* One execution of INSERT ... ON CONFLICT(symbol, time) DO UPDATE SET open,
\* high, low, close, volume: the table has UNIQUE(symbol, time).
UpsertRow(rows, b) ==
    {r \in rows : ~(r.symbol = b.symbol /\ r.time = b.time)} \cup {b}

\* insert_or_replace_bars with a bar merged into the row of its key: open
\* kept, high and low widened, close replaced, volume added.
RECURSIVE insert_or_merge_bars(_, _)
insert_or_merge_bars(rows, new) ==
    IF new = <<>> THEN rows
    ELSE LET b == Head(new)
             old == {r \in rows : r.symbol = b.symbol /\ r.time = b.time}
             merged == IF old = {} THEN b
                       ELSE LET r == CHOOSE r \in old : TRUE
                            IN [b EXCEPT !.open = r.open,
                                         !.high = Max(r.high, b.high),
                                         !.low = Min(r.low, b.low),
                                         !.volume = r.volume + b.volume]
         IN insert_or_merge_bars((rows \ old) \cup {merged}, Tail(new))

\* insert_or_replace_bars: executemany runs the statement once per bar, in
\* the order of the list; an empty list returns at once.
RECURSIVE insert_or_replace_bars(_, _)
insert_or_replace_bars(rows, new) ==
    IF new = <<>> THEN rows
    ELSE insert_or_replace_bars(UpsertRow(rows, Head(new)), Tail(new))

\* insert_ticks_bulk keeping one row per (symbol, time, price, qty): a tick
\* equal in its fields to a stored row, or to an earlier tick of the list, is
\* not inserted.
insert_ticks_distinct(rows, b) ==
    LET Same(r, t) == /\ r.symbol = t.symbol /\ r.time = t.time
                      /\ r.price = t.price /\ r.qty = t.qty
        Seen(t) == \/ \E i \in 1 .. Len(rows) : Same(rows[i], t)
                   \/ \E i \in 1 .. Len(b) : Same(b[i], t) /\ b[i].id < t.id
    IN rows \o SelectSeq(b, LAMBDA t : ~Seen(t))

\* insert_ticks_bulk: one row per tick, appended.
insert_ticks_bulk(rows, b) == rows \o b

\* `time < datetime('now', ?)` compares TEXT: isoformat() writes
\* "YYYY-MM-DDTHH:MM:SS..." and sqlite "YYYY-MM-DD HH:MM:SS". Equal dates are
\* decided by the eleventh character, "T" > " ".
TextBefore(t, cutoff) == t \div 86400000 < cutoff \div 86400000

\* prune_ticks_older_than: DELETE FROM ticks WHERE time < cutoff.
prune_ticks_older_than(rows, cutoff) ==
    SelectSeq(rows, LAMBDA t : ~TextBefore(t.time, cutoff))

\* datetime('now', '-<hours> hours') in ms since the epoch.
CutoffAt(t, hours) == t - hours * 3600000

\* --------------------------------------------------------------------- time
\* A flush thread inside get(timeout=flush_interval) on an empty queue.
Blocked(f) == fpc[f] = "get" /\ tick_queue = <<>>

\* A flush thread outside its drain loop: in a call on the store, which takes
\* as long as the disk and the database lock make it take, or about to make one.
InStore(f) == fpc[f] \in {"init", "insert", "aggregate", "prune"}

\* Time passes until t. The statements of the drain loop take no time: there
\* time passes only while get blocks, and a blocked get returns when its
\* timeout is reached.
Advance(t) ==
    /\ t > now
    /\ nclock < MaxClock
    /\ \A f \in Flushers :
         FlushAlive(f) => InStore(f) \/ (Blocked(f) /\ t <= getEnd[f])
    /\ now' = t
    /\ nclock' = nclock + 1
    /\ UNCHANGED <<start, last_prune, getEnd, prunes, callVars>>
    /\ UNCHANGED <<regVars, workerVars, msgVars, flushVars, storeVars, tick_queue>>

\* Time passes until a blocked get times out.
Timeout == \E f \in Flushers : Blocked(f) /\ Advance(getEnd[f])

\* -------------------------------------------------------------- _flush_loop
\* An exception leaves `while True`: the thread ends, its locals with it.
FlushDies(f) ==
    /\ fpc' = [fpc EXCEPT ![f] = "dead"]
    /\ batch' = [batch EXCEPT ![f] = <<>>]

\* `create_tables(); last_prune = time.time()`, then the first
\* `batch = []; start = time.time()`.
FlushInit(f) ==
    /\ fpc[f] = "init"
    /\ \E ok \in BOOLEAN :
         IF ok THEN /\ fpc' = [fpc EXCEPT ![f] = "drain"]
                    /\ last_prune' = [last_prune EXCEPT ![f] = now]
                    /\ start' = [start EXCEPT ![f] = now]
                    /\ UNCHANGED batch
         ELSE FlushDies(f) /\ UNCHANGED <<start, last_prune>>
    /\ UNCHANGED <<nflushers, aggtf, taken>>
    /\ UNCHANGED <<now, nclock, getEnd, prunes, callVars>>
    /\ UNCHANGED <<regVars, workerVars, msgVars, storeVars, tick_queue>>

\* `while len(batch) < batch_size and time.time() - start < flush_interval:`
DrainOn(f) == Len(batch[f]) < batch_size /\ now - start[f] < flush_interval

\* The condition holds: `_tick_queue.get(timeout=flush_interval)` is called.
FlushWhile(f) ==
    /\ fpc[f] = "drain"
    /\ DrainOn(f)
    /\ fpc' = [fpc EXCEPT ![f] = "get"]
    /\ getEnd' = [getEnd EXCEPT ![f] = now + flush_interval]
    /\ UNCHANGED <<nflushers, batch, aggtf, taken>>
    /\ UNCHANGED <<now, nclock, start, last_prune, prunes, callVars>>
    /\ UNCHANGED <<regVars, workerVars, msgVars, storeVars, tick_queue>>

\* get returns an item: `batch.append(item)`, back to the condition.
FlushGet(f) ==
    /\ fpc[f] = "get"
    /\ tick_queue # <<>>
    /\ batch' = [batch EXCEPT ![f] = Append(@, Head(tick_queue))]
    /\ taken' = Append(taken, Head(tick_queue))
    /\ tick_queue' = Tail(tick_queue)
    /\ fpc' = [fpc EXCEPT ![f] = "drain"]
    /\ UNCHANGED <<nflushers, aggtf>>
    /\ UNCHANGED <<regVars, workerVars, msgVars, storeVars, timeVars>>

\* The drain ends: the condition is false, or get timed out (`except
\* queue.Empty: break`). `if batch:` picks what follows.
FlushDrainEnd(f) ==
    /\ \/ fpc[f] = "drain" /\ ~DrainOn(f)
       \/ Blocked(f) /\ now >= getEnd[f]
    /\ fpc' = [fpc EXCEPT ![f] = IF batch[f] # <<>> THEN "insert" ELSE "prune"]
    /\ aggtf' = [aggtf EXCEPT ![f] = 1]
    /\ UNCHANGED <<nflushers, batch, taken>>
    /\ UNCHANGED <<regVars, workerVars, msgVars, storeVars, timeVars, tick_queue>>

\* `insert_ticks_bulk(batch)`; a sqlite3 error is not caught by the loop.
FlushInsert(f) ==
    /\ fpc[f] = "insert"
    /\ \E ok \in BOOLEAN :
         IF ok
           THEN /\ ticks' = insert_ticks_bulk(ticks, batch[f])
                /\ fpc' = [fpc EXCEPT ![f] = "aggregate"]
                /\ UNCHANGED batch
           ELSE /\ FlushDies(f)
                /\ UNCHANGED ticks
    /\ UNCHANGED <<nflushers, aggtf, taken, bars>>
    /\ UNCHANGED <<regVars, workerVars, msgVars, timeVars, tick_queue>>

\* grouped.to_dict("records"): the rows of the grouped frame, which groupby
\* and resample keep in the order of symbol, then time.
SymbolRank(s) == IF s = "x" THEN 1 ELSE 2

RECURSIVE Records(_)
Records(S) ==
    IF S = {} THEN <<>>
    ELSE LET r == CHOOSE r \in S : \A q \in S :
                      \/ SymbolRank(r.symbol) < SymbolRank(q.symbol)
                      \/ r.symbol = q.symbol /\ r.time <= q.time
         IN <<r>> \o Records(S \ {r})

\* One round of `for tf, rule in rules.items()`: the records of the batch are
\* built and insert_or_replace_bars(table, bars) commits them.
FlushAggregate(f) ==
    /\ fpc[f] = "aggregate"
    /\ LET tf == Timeframes[aggtf[f]] IN
       \E ok \in BOOLEAN :
         IF ok
           THEN /\ bars' = [bars EXCEPT ![tf] =
                     insert_or_replace_bars(@, Records(AggregateBars(batch[f], tf)))]
                /\ IF aggtf[f] < Len(Timeframes)
                     THEN aggtf' = [aggtf EXCEPT ![f] = @ + 1] /\ UNCHANGED fpc
                     ELSE fpc' = [fpc EXCEPT ![f] = "prune"] /\ UNCHANGED aggtf
                /\ UNCHANGED batch
           ELSE /\ FlushDies(f)
                /\ UNCHANGED <<bars, aggtf>>
    /\ UNCHANGED <<nflushers, taken, ticks>>
    /\ UNCHANGED <<regVars, workerVars, msgVars, timeVars, tick_queue>>

\* The next cycle starts: `batch = []; start = time.time()`.
FlushAgain(f) ==
    /\ fpc' = [fpc EXCEPT ![f] = "drain"]
    /\ batch' = [batch EXCEPT ![f] = <<>>]
    /\ start' = [start EXCEPT ![f] = now]

\* `if retention_hours and time.time() - last_prune > 300:`
\* `prune_ticks_older_than(retention_hours); last_prune = time.time()`.
FlushPrune(f) ==
    /\ fpc[f] = "prune"
    /\ IF now - last_prune[f] > PruneEvery
         THEN \E ok \in BOOLEAN :
                IF ok
                  THEN /\ ticks' = prune_ticks_older_than(
                                       ticks, CutoffAt(now, retention_hours))
                       /\ last_prune' = [last_prune EXCEPT ![f] = now]
                       /\ prunes' = Append(prunes, [by |-> f, at |-> now])
                       /\ FlushAgain(f)
                  ELSE FlushDies(f) /\ UNCHANGED <<ticks, start, last_prune, prunes>>
         ELSE FlushAgain(f) /\ UNCHANGED <<ticks, last_prune, prunes>>
    /\ UNCHANGED <<nflushers, aggtf, taken, bars>>
    /\ UNCHANGED <<now, nclock, getEnd, callVars>>
    /\ UNCHANGED <<regVars, workerVars, msgVars, tick_queue>>

FlushStep(f) ==
    \/ FlushInit(f)
    \/ FlushWhile(f)
    \/ FlushGet(f)
    \/ FlushDrainEnd(f)
    \/ FlushInsert(f)
    \/ FlushAggregate(f)
    \/ FlushPrune(f)

\* ------------------------------------------------- calls made on the store
\* Bars a caller upserts: key ("x", 0) with two sets of values, key ("y", 0).
StoreBars ==
    {[time |-> 0, symbol |-> "x", open |-> 100, high |-> 101, low |-> 99,
      close |-> 100, volume |-> 2],
     [time |-> 0, symbol |-> "x", open |-> 101, high |-> 102, low |-> 100,
      close |-> 102, volume |-> 3],
     [time |-> 0, symbol |-> "y", open |-> 50, high |-> 50, low |-> 50,
      close |-> 50, volume |-> 1]}

\* Ticks a caller inserts: at 02:00 and at 11:00 of the first day.
StoreTicks ==
    {[id |-> 1, symbol |-> "x", time |-> 7200000, price |-> 100, qty |-> 1],
     [id |-> 2, symbol |-> "x", time |-> 39600000, price |-> 101, qty |-> 1]}

\* Time between the calls: twelve hours.
StoreSteps == {43200000}

SeqsOf(S) == UNION {[1 .. n -> S] : n \in 0 .. 2}

StoreCall(c) ==
    /\ Len(dbcalls) < MaxStoreCalls
    /\ dbcalls' = Append(dbcalls, c)
    /\ UNCHANGED <<args, result>>
    /\ UNCHANGED <<now, nclock, start, last_prune, getEnd, prunes>>
    /\ UNCHANGED <<regVars, workerVars, msgVars, flushVars, tick_queue>>

StoreUpsert(tf, new) ==
    /\ StoreCall([op |-> "upsert", tf |-> tf, rows |-> new])
    /\ bars' = [bars EXCEPT ![tf] = insert_or_replace_bars(@, new)]
    /\ UNCHANGED ticks

StoreInsert(b) ==
    /\ StoreCall([op |-> "insert", rows |-> b])
    /\ ticks' = insert_ticks_bulk(ticks, b)
    /\ UNCHANGED bars

\* `if hours is None: return`
StorePrune(hours) ==
    /\ StoreCall([op |-> "prune", hours |-> hours, at |-> now])
    /\ ticks' = IF hours = None THEN ticks
                ELSE prune_ticks_older_than(ticks, CutoffAt(now, hours))
    /\ UNCHANGED bars

NextStore ==
    \/ \E tf \in DOMAIN bars, new \in SeqsOf(StoreBars) : StoreUpsert(tf, new)
    \/ \E b \in SeqsOf(StoreTicks) : StoreInsert(b)
    \/ \E hours \in {None, retention_hours} : StorePrune(hours)
    \/ \E d \in StoreSteps : Advance(now + d)
SpecStore == Init /\ [][NextStore]_vars

\* ------------------------------------------------------- the pipeline runs
\* start_stream("x") and start_stream("y") have returned, both connections
\* are open and the flush thread has started: a state SpecConnector reaches.
Streaming ==
    /\ ClockStart
    /\ NoCall
    /\ stream_threads = [s \in Symbols |-> IF s = "x" THEN 1 ELSE 2]
    /\ stop_flags = [s \in Symbols |-> IF s = "x" THEN 1 ELSE 2]
    /\ flush_thread = 1
    /\ cpc = [c \in Callers |-> "idle"]
    /\ csym = [c \in Callers |-> IF c = Controller THEN "y" ELSE "x"]
    /\ cthr = [c \in Callers |-> IF c = Controller THEN 2 ELSE None]
    /\ ncalls = 2
    /\ covl = [c \in Callers |-> FALSE]
    /\ lastDone = [s \in Symbols |-> "start"]
    /\ nworkers = 2
    /\ wsym = [w \in Workers |-> IF w = 2 THEN "y" ELSE "x"]
    /\ wpc = [w \in Workers |-> IF w <= 2 THEN "run" ELSE "unborn"]
    /\ backoff = [w \in Workers |-> BackoffStart]
    /\ stopEvt = [w \in Workers |-> FALSE]
    /\ nwait = [w \in Workers |-> 0]
    /\ mpc = [w \in Workers |-> "idle"]
    /\ mtick = [w \in Workers |-> None]
    /\ outcome = [w \in Workers |-> "none"]
    /\ evicted = {}
    /\ nflushers = 1
    /\ fpc = [f \in Flushers |-> IF f = 1 THEN "init" ELSE "unborn"]
    /\ batch = [f \in Flushers |-> <<>>]
    /\ aggtf = [f \in Flushers |-> 1]
    /\ taken = <<>>
    /\ ticks = <<>>
    /\ bars = [tf \in {"1s", "1m", "5m"} |-> {}]

InitBuffer ==
    /\ Streaming
    /\ tick_queue = <<>>
    /\ nmsg = 0
    /\ offered = <<>>
    /\ enq = <<>>

\* Connectors offering ticks while the flush thread drains and stores them.
NextBuffer ==
    \/ \E w \in Workers : MsgStep(w)
    \/ \E f \in Flushers : FlushStep(f)
    \/ Timeout
SpecBuffer == InitBuffer /\ [][NextBuffer]_vars

\* One connection and what its peer does: well-formed and unparsable
\* messages arrive, the peer closes, the connector reconnects.
NextFeed ==
    \/ \E m \in BufferFeed \cup JunkFeed : MsgRecv(FirstWorker, m)
    \/ MsgEvict(FirstWorker)
    \/ MsgReput(FirstWorker)
    \/ WorkerStep(FirstWorker)
SpecFeed == InitBuffer /\ [][NextFeed]_vars

\* start_stream("x") and start_stream("y") were called by two threads at the
\* same time and each started a flush thread: both connections are open and
\* both flush threads have started, a state the callers and connectors reach.
RacedStart ==
    /\ ClockStart
    /\ NoCall
    /\ stream_threads = [s \in Symbols |-> IF s = "x" THEN 1 ELSE 2]
    /\ stop_flags = [s \in Symbols |-> IF s = "x" THEN 1 ELSE 2]
    /\ flush_thread = 2
    /\ cpc = [c \in Callers |-> "idle"]
    /\ csym = [c \in Callers |-> IF c = Controller THEN "y" ELSE "x"]
    /\ cthr = [c \in Callers |-> IF c = Controller THEN 2 ELSE 1]
    /\ ncalls = 2
    /\ covl = [c \in Callers |-> TRUE]
    /\ lastDone = [s \in Symbols |-> "racy"]
    /\ nworkers = 2
    /\ wsym = [w \in Workers |-> IF w = 2 THEN "y" ELSE "x"]
    /\ wpc = [w \in Workers |-> IF w <= 2 THEN "run" ELSE "unborn"]
    /\ backoff = [w \in Workers |-> BackoffStart]
    /\ stopEvt = [w \in Workers |-> FALSE]
    /\ nwait = [w \in Workers |-> 0]
    /\ mpc = [w \in Workers |-> "idle"]
    /\ mtick = [w \in Workers |-> None]
    /\ outcome = [w \in Workers |-> "none"]
    /\ evicted = {}
    /\ nflushers = 2
    /\ fpc = [f \in Flushers |-> IF f <= 2 THEN "init" ELSE "unborn"]
    /\ batch = [f \in Flushers |-> <<>>]
    /\ aggtf = [f \in Flushers |-> 1]
    /\ taken = <<>>
    /\ ticks = <<>>
    /\ bars = [tf \in {"1s", "1m", "5m"} |-> {}]

\* Trades of the first second of the epoch, for the claims on retention.
RetentionFeed ==
    {[s |-> "x", T |-> 100, p |-> 100, q |-> 1],
     [s |-> "x", T |-> 400, p |-> 101, q |-> 2]}

\* Time that passes while a flush thread is in the store: the prune interval
\* to the millisecond, and a day and a half.
RetentionSteps == {PruneEvery, 129600000}

\* One flush thread, or the two of a raced start, with a few ticks queued.
InitRetention ==
    /\ Streaming \/ RacedStart
    /\ \E n \in 0 .. 2 : \E ms \in [1 .. n -> RetentionFeed] :
         tick_queue = [i \in 1 .. n |-> MakeTick(i, ms[i].s, ms[i])]
    /\ nmsg = Len(tick_queue)
    /\ offered = tick_queue
    /\ enq = tick_queue

\* The flush threads over hours: cycles, timeouts, and slow calls on the store.
NextRetention ==
    \/ \E f \in Flushers : FlushStep(f)
    \/ Timeout
    \/ \E d \in RetentionSteps : Advance(now + d)
SpecRetention == InitRetention /\ [][NextRetention]_vars

\* Time after which a message arrives at a waiting flush thread: shortly
\* before flush_interval has passed.
DrainSteps == {flush_interval - 100}

\* The drain loop and the clock: the first connector delivers messages while
\* the flush thread waits for them.
NextDrain ==
    \/ MsgStep(FirstWorker)
    \/ \E f \in Flushers : FlushStep(f)
    \/ Timeout
    \/ \E d \in DrainSteps : Advance(now + d)
SpecDrain == InitBuffer /\ [][NextDrain]_vars

\* Trade messages the flush thread's claims are tried on: symbol, T in ms, p, q.
FlushFeed ==
    {[s |-> "x", T |-> 100, p |-> 100, q |-> 1],
     [s |-> "x", T |-> 400, p |-> 101, q |-> 2],
     [s |-> "x", T |-> 900, p |-> 99, q |-> 1],
     [s |-> "x", T |-> 100, p |-> 99, q |-> 2],
     [s |-> "x", T |-> 1200, p |-> 101, q |-> 1],
     [s |-> "x", T |-> 61000, p |-> 100, q |-> 2],
     [s |-> "y", T |-> 400, p |-> 100, q |-> 1]}

\* The flush thread at work: the queue holds any ticks the feed has sent, and
\* the first connector delivers further ones.
InitFlush ==
    /\ Streaming
    /\ \E n \in 0 .. maxsize : \E ms \in [1 .. n -> FlushFeed] :
         tick_queue = [i \in 1 .. n |-> MakeTick(i, ms[i].s, ms[i])]
    /\ nmsg = Len(tick_queue)
    /\ offered = tick_queue
    /\ enq = tick_queue

NextFlush ==
    \/ \E f \in Flushers : FlushStep(f)
    \/ Timeout
    \/ MsgStep(FirstWorker)
SpecFlush == InitFlush /\ [][NextFlush]_vars

\* ------------------------------------------------------------ analytics.py
\* The series a caller passes: up to MaxLen observations.
Observations == 1 .. 3
Series == UNION {[1 .. n -> Observations] : n \in 0 .. MaxLen}

\* Series of lengths 10 and 7.
LongY == <<3, 1, 4, 1, 5, 9, 2, 6, 5, 3>>
LongX == <<1, 2, 3, 4, 5, 6, 7>>

\* a[:n] for 0 <= n <= len(a).
FirstN(a, n) == SubSeq(a, 1, n)

\* a[-n:] for 0 <= n <= len(a); a[-0:] is all of a.
LastN(a, n) == IF n = 0 THEN a ELSE SubSeq(a, Len(a) - n + 1, Len(a))

Products(a, b) == [i \in 1 .. Len(a) |-> a[i] * b[i]]

\* The slope of the least-squares line of y on x with an intercept, as the
\* fraction SlopeNum / SlopeDen.
SlopeNum(y, x) == Len(x) * SeqSum(Products(x, y)) - SeqSum(x) * SeqSum(y)
SlopeDen(x) == Len(x) * SeqSum(Products(x, x)) - SeqSum(x) * SeqSum(x)

\* add_constant (has_constant="skip") returns x as it is when its column is a
\* non-zero constant: the fit then has one parameter.
ConstantNonZero(x) == \A i \in 1 .. Len(x) : x[i] = x[1] /\ x[i] # 0

\* hedge_ratio(y, x): what it raises, or the slope it returns.
hedge_ratio(y, x) ==
    LET min_len == Min(Len(y), Len(x)) IN
    IF min_len = 0 THEN [raised |-> "ValueError"]
    ELSE LET y_arr == LastN(y, min_len)
             x_arr == LastN(x, min_len)
         IN IF ConstantNonZero(x_arr) THEN [raised |-> "IndexError"]
            ELSE IF SlopeDen(x_arr) = 0
                   THEN [raised |-> "none", value |-> <<0, 1>>]
            ELSE [raised |-> "none",
                  value |-> <<SlopeNum(y_arr, x_arr), SlopeDen(x_arr)>>]

\* zscore(series) = (series - series.mean()) / series.std(): pandas' std is
\* NaN for fewer than two values and 0 for a constant series, and a float
\* division by NaN or of 0 by 0 gives NaN; nothing raises. An element that is
\* a number is given by n * (x - mean) and n * n * the population variance.
zscore(series) ==
    LET n == Len(series)
        var == n * SeqSum(Products(series, series)) - SeqSum(series) * SeqSum(series)
    IN [raised |-> "none",
        value |-> [i \in 1 .. n |->
                     IF n < 2 \/ var = 0 THEN "NaN"
                     ELSE <<n * series[i] - SeqSum(series), var>>]]

\* The call returns or raises.
CallReturns(r) ==
    /\ result.raised = "pending"
    /\ result' = r
    /\ UNCHANGED <<args, dbcalls, now, nclock, start, last_prune, getEnd, prunes>>
    /\ UNCHANGED <<regVars, workerVars, msgVars, flushVars, storeVars, tick_queue>>

CallHedge == args.fn = "hedge_ratio" /\ CallReturns(hedge_ratio(args.y, args.x))
CallZscore == args.fn = "zscore" /\ CallReturns(zscore(args.series))

\* A caller is about to call hedge_ratio or zscore on series of its choice.
InitAnalytics ==
    /\ Imported
    /\ result = [raised |-> "pending"]
    /\ \/ \E y \in Series, x \in Series : args = [fn |-> "hedge_ratio", y |-> y, x |-> x]
       \/ args = [fn |-> "hedge_ratio", y |-> LongY, x |-> LongX]
       \/ \E series \in Series : args = [fn |-> "zscore", series |-> series]

NextAnalytics == CallHedge \/ CallZscore
SpecAnalytics == InitAnalytics /\ [][NextAnalytics]_vars

\* ---------------------------------------------------------------- claims
\* C1: once stop_stream has set the stop event of a connector, that connector
\* thread eventually terminates.
C1_StopTerminates == [](stopEvt[FirstWorker] => <>(wpc[FirstWorker] = "done"))

\* C2: a persistence failure inside a flush cycle (the tick insert, a bar
\* upsert or the prune raising) never ends the flush thread.
C2_FailureAbsorbed ==
    [][\A f \in Flushers :
          fpc[f] \in {"insert", "aggregate", "prune"} => fpc'[f] # "dead"]_vars

\* C3: no offer raises to the connector and every offer leaves its tick on
\* the queue: it ends neither by queue.Full nor by letting the tick go.
C3_OfferNeverFails == \A w \in Workers : outcome[w] \notin {"raised", "dropped"}

InSeq(x, xs) == \E i \in 1 .. Len(xs) : xs[i] = x
PosIn(x, xs) == CHOOSE i \in 1 .. Len(xs) : xs[i] = x
NoRepeat(xs) == \A i, j \in 1 .. Len(xs) : i # j => xs[i] # xs[j]
InFlight(t) == \E w \in Workers : mpc[w] # "idle" /\ mtick[w] = t
ToInt(b) == IF b THEN 1 ELSE 0

\* The ticks taken come out in the order they were put on the queue, none twice.
TakenInOrder ==
    /\ NoRepeat(taken)
    /\ \A i \in 1 .. Len(taken) : InSeq(taken[i], enq)
    /\ \A i, j \in 1 .. Len(taken) :
         i < j => PosIn(taken[i], enq) < PosIn(taken[j], enq)

\* C4: the ticks taken are a subsequence of the enqueue order, none twice,
\* and every tick offered (its offer over) is exactly one of taken, evicted
\* and still queued.
C4_TakenOnceInOrder ==
    /\ TakenInOrder
    /\ \A i \in 1 .. Len(offered) :
         InFlight(offered[i]) \/
           ToInt(InSeq(offered[i], taken)) + ToInt(offered[i] \in evicted)
             + ToInt(InSeq(offered[i], tick_queue)) = 1

\* One connector has offered more ticks than the queue holds, one after the
\* other, and nothing was taken.
OverfilledByOneFeed ==
    /\ taken = <<>>
    /\ \A w \in Workers : mpc[w] = "idle"
    /\ Len(offered) > maxsize
    /\ \E s \in Symbols : \A i \in 1 .. Len(offered) : offered[i].symbol = s

\* C5: the queue never holds more than its capacity N, and after N+k ticks
\* offered in order with no take it holds the last N of them, in order.
C5_KeepsNewest ==
    /\ Len(tick_queue) <= maxsize
    /\ OverfilledByOneFeed =>
         tick_queue = SubSeq(offered, Len(offered) - maxsize + 1, Len(offered))

C5_Witness ==
    /\ OverfilledByOneFeed
    /\ Len(tick_queue) = maxsize
    /\ Cardinality(evicted) = Len(offered) - maxsize

\* C6: when no call is in progress, a symbol whose last call was a start_stream
\* that overlapped no other call is reported by get_status(), and a symbol whose
\* last call was such a stop_stream is not: status() is the set of symbols
\* started and not subsequently stopped, whatever calls interleaved before.
C6_StatusMatchesCalls ==
    (\A c \in Callers : cpc[c] = "idle") =>
        \A s \in Symbols :
            /\ lastDone[s] = "start" => s \in active_symbols
            /\ lastDone[s] = "stop" => s \notin active_symbols

\* C7: at every moment at most one flush thread is alive.
C7_OneFlushWorker == Cardinality({f \in Flushers : FlushAlive(f)}) <= 1

\* 2^n
RECURSIVE Pow2(_)
Pow2(n) == IF n = 0 THEN 1 ELSE 2 * Pow2(n - 1)

\* C8: the n-th wait of a connector lasts min(2^(n-1), 30): 1, 2, 4, 8, 16, 30, ...
C8_BackoffSchedule ==
    \A w \in Workers :
        (wpc[w] = "sleep" /\ nwait[w] < MaxWaits) =>
            backoff[w] = Min(Pow2(nwait[w] - 1), 30)

\* C9: a connector leaves its loop only when its stop event is set, and while
\* it is not set every failed or closed connection is followed by a new attempt.
C9_AlwaysReconnects ==
    /\ [](wpc[FirstWorker] = "done" => stopEvt[FirstWorker])
    /\ [](wpc[FirstWorker] \in {"closed", "failed"} =>
            <>(wpc[FirstWorker] = "connecting" \/ stopEvt[FirstWorker]))

\* The connector is at a new attempt after two waits, with no stop requested.
C9_Witness ==
    /\ wpc[FirstWorker] = "connecting"
    /\ nwait[FirstWorker] >= 2
    /\ ~stopEvt[FirstWorker]

\* Window starts a bar of width w may carry, past the last instant of FlushFeed.
ClaimWindows(w) == {k * w : k \in 0 .. (61000 \div w) + 1}
InWindow(t, ot, w) == ot <= t /\ t < ot + w

RECURSIVE SumQty(_, _)
SumQty(b, I) ==
    IF I = {} THEN 0
    ELSE LET i == CHOOSE i \in I : TRUE IN b[i].qty + SumQty(b, I \ {i})

\* C10: each upsert of a flush cycle writes, for every symbol and every window
\* of the timeframe that holds a tick of the batch, one bar with open = price of
\* an earliest-timestamped tick of the batch in the window, close = price of a
\* latest one, high = max price, low = min price, volume = sum of quantities,
\* and leaves the rows of all other windows as they were.
C10_BarsFromBatch ==
    [][\A f \in Flushers :
          (fpc[f] = "aggregate" /\ (aggtf'[f] # aggtf[f] \/ fpc'[f] = "prune")) =>
            LET tf == Timeframes[aggtf[f]]
                w == TfWidth(tf)
                b == batch[f]
            IN /\ \A r \in bars'[tf] \ bars[tf] : r.time \in ClaimWindows(w)
               /\ \A s \in Symbols, ot \in ClaimWindows(w) :
                    LET I == {i \in 1 .. Len(b) :
                                b[i].symbol = s /\ InWindow(b[i].time, ot, w)}
                        old == {r \in bars[tf] : r.symbol = s /\ r.time = ot}
                        new == {r \in bars'[tf] : r.symbol = s /\ r.time = ot}
                    IN IF I = {} THEN new = old
                       ELSE \E r \in new :
                              /\ new = {r}
                              /\ \E i \in I : /\ \A j \in I : b[i].time <= b[j].time
                                              /\ r.open = b[i].price
                              /\ \E i \in I : /\ \A j \in I : b[i].time >= b[j].time
                                              /\ r.close = b[i].price
                              /\ \E i \in I : r.high = b[i].price
                              /\ \A j \in I : r.high >= b[j].price
                              /\ \E i \in I : r.low = b[i].price
                              /\ \A j \in I : r.low <= b[j].price
                              /\ r.volume = SumQty(b, I)]_vars

\* The scenario of the claim: ticks of "x" at 0.1 s (100), 0.4 s (101) and
\* 0.9 s (99) in one batch, and the three upserts of the cycle done.
C10_Witness ==
    \E f \in Flushers :
        /\ fpc[f] = "prune"
        /\ [i \in 1 .. Len(batch[f]) |->
              <<batch[f][i].symbol, batch[f][i].time, batch[f][i].price>>]
             = <<(<<"x", 100, 100>>), (<<"x", 400, 101>>), (<<"x", 900, 99>>)>>
        /\ [time |-> 0, symbol |-> "x", open |-> 100, high |-> 101, low |-> 99,
            close |-> 99, volume |-> 4] \in bars["1s"]

\* C11: every stored bar of every timeframe has
\* low <= min(open, close) <= max(open, close) <= high and volume >= 0.
C11_BarInvariants ==
    \A tf \in DOMAIN bars : \A b \in bars[tf] :
        /\ b.low <= Min(b.open, b.close)
        /\ Min(b.open, b.close) <= Max(b.open, b.close)
        /\ Max(b.open, b.close) <= b.high
        /\ b.volume >= 0

\* A stored bar of several ticks whose extremes are neither its open nor its
\* close on one side: it closes above its open and below its high.
C11_Witness ==
    \E tf \in DOMAIN bars : \E b \in bars[tf] :
        b.low < b.open /\ b.open < b.high /\ b.volume > 1

\* The bars that the upserts among the given calls wrote into the table of
\* timeframe tf, in the order written.
RECURSIVE WritesOf(_, _)
WritesOf(calls, tf) ==
    IF calls = <<>> THEN <<>>
    ELSE (IF Head(calls).op = "upsert" /\ Head(calls).tf = tf
            THEN Head(calls).rows ELSE <<>>) \o WritesOf(Tail(calls), tf)

\* C12: after any sequence of upserts, every bar table holds for each key
\* (symbol, open time) no row when the key was never written, and otherwise
\* exactly one row, the one written last for that key in that table.
C12_UpsertLastWins ==
    \A tf \in DOMAIN bars :
      \A k \in {<<b.symbol, b.time>> : b \in StoreBars \cup bars[tf]} :
        LET ws == SelectSeq(WritesOf(dbcalls, tf),
                            LAMBDA b : b.symbol = k[1] /\ b.time = k[2])
            rows == {r \in bars[tf] : r.symbol = k[1] /\ r.time = k[2]}
        IN IF ws = <<>> THEN rows = {} ELSE rows = {ws[Len(ws)]}

\* Two upserts into one table wrote the same key with different values: the
\* table holds the second bar, not the first, and still the row of another key.
C12_Witness ==
    \E tf \in DOMAIN bars :
      /\ Len(dbcalls) = 2
      /\ \A i \in 1 .. 2 : dbcalls[i].op = "upsert" /\ dbcalls[i].tf = tf
      /\ \E i \in DOMAIN dbcalls[1].rows, j \in DOMAIN dbcalls[2].rows :
           LET a == dbcalls[1].rows[i]
               b == dbcalls[2].rows[j]
           IN /\ a.symbol = b.symbol /\ a.time = b.time /\ a # b
              /\ b \in bars[tf] /\ a \notin bars[tf]
              /\ \E r \in bars[tf] : r.symbol # b.symbol
      /\ \E other \in DOMAIN bars : bars[other] = {}

\* C13: a prune called with a retention of `hours` leaves exactly the ticks
\* whose timestamp is not older than now minus that many hours.
C13_PruneByAge ==
    [][(/\ Len(dbcalls') = Len(dbcalls) + 1
        /\ dbcalls'[Len(dbcalls')].op = "prune"
        /\ dbcalls'[Len(dbcalls')].hours # None) =>
          ticks' = SelectSeq(ticks, LAMBDA t :
                       t.time >= CutoffAt(now, dbcalls'[Len(dbcalls')].hours))]_vars

\* C14: a delivered message that does not parse builds no tick, leaves the
\* queue and the callback as they were and the connector in run_forever on
\* the same connection; a well-formed message delivered to a connector whose
\* previous message did not parse is offered to the queue like any other.
C14_JunkDropped ==
    [][/\ (nmsg' = nmsg + 1 /\ offered' = offered) =>
            /\ tick_queue' = tick_queue /\ enq' = enq /\ evicted' = evicted
            /\ mpc' = mpc /\ wpc' = wpc /\ nwait' = nwait
       /\ \A w \in Workers :
            (/\ outcome[w] = "unparsed" /\ outcome'[w] # "unparsed"
             /\ nmsg' = nmsg + 1) =>
               /\ wpc[w] = "run"
               /\ Len(offered') = Len(offered) + 1
               /\ LET t == offered'[Len(offered')]
                  IN IF Len(tick_queue) < maxsize
                       THEN tick_queue' = Append(tick_queue, t)
                       ELSE mpc'[w] = "evict" /\ mtick'[w] = t]_vars

\* The first message of the first connection did not parse, the second did:
\* it is in the queue, and the connector never left that connection.
C14_Witness ==
    /\ \A i \in 1 .. Len(offered) : offered[i].id # 1
    /\ \E i \in 1 .. Len(tick_queue) : tick_queue[i].id = 2
    /\ wpc[FirstWorker] = "run"
    /\ nwait[FirstWorker] = 0
    /\ nmsg = 2

RECURSIVE SumTo(_, _)
SumTo(f, n) == IF n = 0 THEN 0 ELSE f[n] + SumTo(f, n - 1)

\* C15: hedge_ratio(y, x) raises its ValueError and returns nothing when the
\* shorter series is empty; otherwise, whenever the last m = min(len(y),
\* len(x)) observations of x are not all equal, it returns the least-squares
\* slope of the last m observations of y on the last m observations of x.
C15_HedgeTrims ==
    (args.fn = "hedge_ratio" /\ result.raised # "pending") =>
      LET y == args.y
          x == args.x
          m == Min(Len(y), Len(x))
          uy == [i \in 1 .. m |-> y[Len(y) - m + i]]
          ux == [i \in 1 .. m |-> x[Len(x) - m + i]]
          N == m * SumTo([i \in 1 .. m |-> ux[i] * uy[i]], m) - SumTo(ux, m) * SumTo(uy, m)
          D == m * SumTo([i \in 1 .. m |-> ux[i] * ux[i]], m) - SumTo(ux, m) * SumTo(ux, m)
      IN IF m = 0 THEN result = [raised |-> "ValueError"]
         ELSE D # 0 => /\ result.raised = "none"
                       /\ result.value[2] # 0
                       /\ result.value[1] * D = N * result.value[2]

\* hedge_ratio has returned a slope for series of lengths 10 and 7.
C15_Witness ==
    /\ args.fn = "hedge_ratio"
    /\ Len(args.y) = 10 /\ Len(args.x) = 7
    /\ result.raised = "none"

\* C16: zscore of a series of two or more equal values (standard deviation
\* zero) ends by raising an error, never by returning a value.
C16_ZscoreFlagsConstant ==
    (/\ args.fn = "zscore"
     /\ result.raised # "pending"
     /\ Len(args.series) >= 2
     /\ \A i \in 1 .. Len(args.series) : args.series[i] = args.series[1]) =>
        result.raised # "none"

\* The prunes of one flush thread are more than the prune interval apart.
PrunesSpacedPerThread ==
    \A i, j \in 1 .. Len(prunes) :
        (i < j /\ prunes[i].by = prunes[j].by) =>
            prunes[j].at - prunes[i].at > PruneEvery

BarKeys(rows) == {<<r.symbol, r.time>> : r \in rows}

\* A prune changes nothing but the table of ticks, from which it only
\* deletes, and no step takes a key out of a bar table.
PruneOnlyTicks ==
    [][/\ Len(prunes') > Len(prunes) =>
            /\ bars' = bars /\ tick_queue' = tick_queue
            /\ \A i \in 1 .. Len(ticks') : InSeq(ticks'[i], ticks)
       /\ \A tf \in DOMAIN bars : BarKeys(bars[tf]) \subseteq BarKeys(bars'[tf])]_vars

\* C17: any two successive prunes of raw ticks are at least 300 s apart, a
\* prune deletes from the table of ticks only, and the set of keys of every
\* bar table only grows.
C17_PrunesSpaced ==
    /\ [](\A i \in 1 .. Len(prunes) - 1 :
            prunes[i + 1].at - prunes[i].at >= PruneEvery)
    /\ PruneOnlyTicks

\* Bar r is the aggregate of the ticks of batch b at the indices I alone.
IsAggregateOf(r, b, I) ==
    /\ \E i \in I : (\A j \in I : b[i].time <= b[j].time) /\ r.open = b[i].price
    /\ \E i \in I : (\A j \in I : b[i].time >= b[j].time) /\ r.close = b[i].price
    /\ \E i \in I : r.high = b[i].price
    /\ \A j \in I : r.high >= b[j].price
    /\ \E i \in I : r.low = b[i].price
    /\ \A j \in I : r.low <= b[j].price
    /\ r.volume = SumQty(b, I)

\* C18: when a cycle upserts a timeframe and its batch holds ticks of a window
\* that already has a stored bar (written by an earlier cycle), the stored
\* bar of that window afterwards is the aggregate of this batch's ticks of
\* the window alone: all five values of the earlier bar are replaced.
C18_BatchLocalBars ==
    [][\A f \in Flushers :
          (fpc[f] = "aggregate" /\ (aggtf'[f] # aggtf[f] \/ fpc'[f] = "prune")) =>
            LET tf == Timeframes[aggtf[f]]
                b == batch[f]
            IN \A old \in bars[tf] :
                 LET I == {i \in 1 .. Len(b) :
                             /\ b[i].symbol = old.symbol
                             /\ InWindow(b[i].time, old.time, TfWidth(tf))}
                     new == {r \in bars'[tf] :
                               r.symbol = old.symbol /\ r.time = old.time}
                 IN I # {} => \E r \in new : new = {r} /\ IsAggregateOf(r, b, I)]_vars

\* A second cycle has upserted its batch, one tick of "x" at 0.1 s with price
\* 100 and quantity 1; the first second of "x" has earlier ticks in storage,
\* one of them at price 101; the stored 1 s bar is that of the one tick.
C18_Witness ==
    \E f \in Flushers :
        /\ fpc[f] = "prune"
        /\ Len(batch[f]) = 1
        /\ batch[f][1].symbol = "x" /\ batch[f][1].time = 100
        /\ batch[f][1].price = 100 /\ batch[f][1].qty = 1
        /\ \E i \in 1 .. Len(ticks) :
             /\ ticks[i].symbol = "x" /\ ticks[i].time < 1000
             /\ ticks[i].price = 101 /\ ticks[i] # batch[f][1]
        /\ \E i \in 1 .. Len(ticks) : ticks[i] = batch[f][1]
        /\ [time |-> 0, symbol |-> "x", open |-> 100, high |-> 100, low |-> 100,
            close |-> 100, volume |-> 1] \in bars["1s"]

\* C19: while a flush thread is in the drain of a cycle its batch holds at
\* most batch_size ticks and no more than flush_interval has passed since the
\* drain started.
C19_DrainBounded ==
    \A f \in Flushers :
        fpc[f] \in {"drain", "get"} =>
            /\ Len(batch[f]) <= batch_size
            /\ now - start[f] <= flush_interval

\* C20: the writes of a flush cycle. The insert of a cycle appends its batch
\* to tick storage, one row per drained tick in the order drained, ticks
\* equal in every field included, and leaves the rows stored before as they
\* were. A cycle whose drain was empty makes no insert and no upsert: it
\* leaves bar storage unchanged, and tick storage too unless its prune is due,
\* which removes rows and adds or alters none.
C20_CycleWrites ==
    [][\A f \in Flushers :
         /\ fpc[f] = "insert" /\ fpc'[f] = "aggregate" =>
               /\ batch[f] # <<>>
               /\ Len(ticks') = Len(ticks) + Len(batch[f])
               /\ SubSeq(ticks', 1, Len(ticks)) = ticks
               /\ SubSeq(ticks', Len(ticks) + 1, Len(ticks')) = batch[f]
               /\ bars' = bars
         /\ fpc'[f] \in {"insert", "aggregate"} => batch'[f] # <<>>
         /\ fpc[f] = "prune" /\ fpc'[f] = "drain" /\ batch[f] = <<>> =>
               /\ bars' = bars
               /\ now - last_prune[f] <= PruneEvery => ticks' = ticks
               /\ ticks' = SelectSeq(ticks, LAMBDA r :
                               \E i \in 1 .. Len(ticks') : ticks'[i] = r)]_vars

\* A cycle has inserted its batch and tick storage holds two rows equal in
\* symbol, time, price and quantity.
C20_Witness ==
    \E f \in Flushers :
      /\ fpc[f] = "aggregate"
      /\ Len(batch[f]) = 2
      /\ \E i, j \in 1 .. Len(ticks) :
            /\ i < j
            /\ ticks[i].id # ticks[j].id
            /\ [ticks[i] EXCEPT !.id = 0] = [ticks[j] EXCEPT !.id = 0]

\* C20 as the specification states it, for the only flush thread of the
\* process: a cycle whose drain was empty ends with tick and bar storage as
\* they were when its drain ended.
C20_EmptyCycleNoWrites ==
    [][\A f \in Flushers :
         /\ nflushers = 1
         /\ fpc[f] = "prune" /\ fpc'[f] = "drain" /\ batch[f] = <<>>
         => ticks' = ticks /\ bars' = bars]_vars

\* C21: at every moment at most one connector thread of a symbol is
\* connecting or has a connection open, the states in which it offers the
\* ticks of the symbol to the queue, whatever calls to start_stream and
\* stop_stream one thread has made one after the other.
C21_OneConnectorPerSymbol ==
    \A s \in Symbols :
      Cardinality({w \in Workers :
                     wsym[w] = s /\ wpc[w] \in {"connecting", "run"}}) <= 1

====
